---------------------------- MODULE Spec2Model ----------------------------
(***************************************************************************)
(* lambda_handler of src/lambda_function.py: resolve the bucket name, list *)
(* up to ten objects of the bucket through the S3 client, and shape the    *)
(* result or the failure into a response {statusCode, body}.               *)
(*                                                                         *)
(* The handler is modelled statement by statement (pc).  The environment   *)
(* (os.environ, what boto3.client does, what the bucket holds or how the   *)
(* list call fails) is drawn in Init and never written by the handler.     *)
(* Any number of invocations follow one another.                           *)
(***************************************************************************)
EXTENDS Integers, Sequences, FiniteSets, TLC

VARIABLES
    environ,      \* os.environ, a dict of str
    boto3_fault,  \* what boto3.client('s3') raises, or NoFault
    s3,           \* provider state: what list_objects_v2 answers
    pc,           \* position of the handler
    event,        \* the request of the current invocation
    bucket_name,  \* local, line 28
    response,     \* local, line 45
    objects,      \* local, line 51
    idx,          \* position of the for loop of line 53 in response['Contents']
    exc,          \* the exception in flight inside the try block
    result,       \* the returned response, or Unbound
    escaped,      \* the exception that left lambda_handler, or Unbound
    calls,        \* keyword arguments of every list_objects_v2 call of this invocation
    prev          \* an earlier invocation, remembered: its request and its outcome

vars == <<environ, boto3_fault, s3, pc, event, bucket_name, response, objects,
          idx, exc, result, escaped, calls, prev>>

locals == <<bucket_name, response, objects, idx, exc>>
world == <<environ, boto3_fault, s3>>

----------------------------------------------------------------------------
(* Bounds of the model *)

\* Listings of at most this many entries are drawn over every entry of Entries.
MaxShortLen == 3
\* The longest bucket listing (one more than the page size requested).
MaxBucketLen == 11

----------------------------------------------------------------------------
(* Python values.  A value carries its type, since the code dispatches on  *)
(* it (truthiness, .isoformat, json.dumps).                                *)

PyNone == [ty |-> "NoneType"]
PyStr(s) == [ty |-> "str", v |-> s]
PyInt(n) == [ty |-> "int", v |-> n]
DateTime(y, mo, d, h, mi, s, us, utc) ==
    [ty |-> "datetime", year |-> y, month |-> mo, day |-> d, hour |-> h,
     minute |-> mi, second |-> s, microsecond |-> us, utc |-> utc]

\* A local that is not bound (yet), a handler that has not returned (yet).
Unbound == [ty |-> "unbound"]
NoFault == [cls |-> "none"]
EmptyDict == [k \in {} |-> PyNone]

\* bool(v)
Truthy(v) ==
    CASE v.ty = "NoneType" -> FALSE
      [] v.ty = "str" -> v.v # ""
      [] v.ty = "int" -> v.v # 0
      [] OTHER -> TRUE

\* a or b
PyOr(a, b) == IF Truthy(a) THEN a ELSE b

\* d.get(k)
DictGet(d, k) == IF k \in DOMAIN d THEN d[k] ELSE PyNone

\* Exceptions
KeyError(k) == [cls |-> "KeyError", msg |-> "'" \o k \o "'"]
AttributeError(m) == [cls |-> "AttributeError", msg |-> m]
TypeError(m) == [cls |-> "TypeError", msg |-> m]
Exception(m) == [cls |-> "Exception", msg |-> m]
ClientError(code, message) ==
    [cls |-> "ClientError",
     response |-> [Error |-> [Code |-> code, Message |-> message]]]
ProfileNotFound ==
    [cls |-> "ProfileNotFound", msg |-> "The config profile (dev) could not be found"]

\* str(e)
ExcStr(e) == e.msg

----------------------------------------------------------------------------
(* datetime.isoformat() *)

Digit(d) == SubSeq("0123456789", d + 1, d + 1)

RECURSIVE Pad(_, _)
Pad(n, w) == IF w = 0 THEN "" ELSE Pad(n \div 10, w - 1) \o Digit(n % 10)

IsoFormat(dt) ==
    Pad(dt.year, 4) \o "-" \o Pad(dt.month, 2) \o "-" \o Pad(dt.day, 2) \o "T"
    \o Pad(dt.hour, 2) \o ":" \o Pad(dt.minute, 2) \o ":" \o Pad(dt.second, 2)
    \o (IF dt.microsecond # 0 THEN "." \o Pad(dt.microsecond, 6) ELSE "")
    \o (IF dt.utc THEN "+00:00" ELSE "")

----------------------------------------------------------------------------
(* json.dumps *)

JsonTypes == {"str", "int"}

JsonValue(v) == v.v

\* json.dumps raises TypeError on a value that has no JSON form (a datetime).
JsonSerializable(d) ==
    \A k \in DOMAIN d :
        IF k = "objects"
        THEN \A i \in 1..Len(d[k]) : \A f \in DOMAIN d[k][i] : d[k][i][f].ty \in JsonTypes
        ELSE d[k].ty \in JsonTypes

\* The JSON document: every Python value replaced by its JSON value.
JsonDumps(d) ==
    [k \in DOMAIN d |->
        IF k = "objects"
        THEN [i \in 1..Len(d[k]) |-> [f \in DOMAIN d[k][i] |-> JsonValue(d[k][i][f])]]
        ELSE JsonValue(d[k])]

----------------------------------------------------------------------------
(* The inputs *)

Events ==
    { EmptyDict,
      [bucket_name |-> PyNone],
      [bucket_name |-> PyStr("")],
      [bucket_name |-> PyStr("test-bucket")] }

Environs ==
    { EmptyDict,
      [S3_BUCKET_NAME |-> PyStr("")],
      [S3_BUCKET_NAME |-> PyStr("test-bucket-env")] }

File1 == [Key |-> PyStr("file1.txt"), Size |-> PyInt(1024),
          LastModified |-> DateTime(2024, 1, 1, 12, 0, 0, 0, FALSE)]
File2 == [Key |-> PyStr("file2.txt"), Size |-> PyInt(2048),
          LastModified |-> DateTime(2024, 1, 2, 12, 0, 0, 0, TRUE)]
NoKeyEntry == [Size |-> PyInt(7), LastModified |-> DateTime(2024, 1, 3, 9, 5, 0, 250, TRUE)]
NoSizeEntry == [Key |-> PyStr("file3.txt"), LastModified |-> DateTime(2024, 1, 3, 9, 5, 0, 0, TRUE)]
StrDateEntry == [Key |-> PyStr("file4.txt"), Size |-> PyInt(0), LastModified |-> PyStr("2024-01-04")]

GoodEntries == {File1, File2}
Entries == GoodEntries \cup {NoKeyEntry, NoSizeEntry, StrDateEntry}

\* A long listing: keys in an order that is not sorted.
LongListing(n) == [i \in 1..n |-> IF i % 2 = 1 THEN File2 ELSE File1]

Listings ==
    UNION {[1..n -> Entries] : n \in 0..MaxShortLen}
    \cup {LongListing(n) : n \in (MaxShortLen + 1)..MaxBucketLen}

S3States ==
    {[kind |-> "no_contents"]}
    \cup {[kind |-> "listing", contents |-> c] : c \in Listings}
    \cup {[kind |-> "raises", exc |-> e] :
            e \in { ClientError("NoSuchBucket", "The specified bucket does not exist"),
                    ClientError("AccessDenied", "Access Denied"),
                    Exception("Unexpected error") }}

Min(a, b) == IF a <= b THEN a ELSE b

\* list_objects_v2(**kwargs) of the storage provider: the first page.
S3ListObjectsV2(state, kwargs) ==
    CASE state.kind = "raises" -> [raised |-> TRUE, exc |-> state.exc]
      [] state.kind = "no_contents" -> [raised |-> FALSE, value |-> EmptyDict]
      [] state.kind = "listing" ->
            LET limit == IF "MaxKeys" \in DOMAIN kwargs THEN kwargs.MaxKeys ELSE 1000
            IN [raised |-> FALSE,
                value |-> [Contents |-> SubSeq(state.contents, 1,
                                               Min(limit, Len(state.contents)))]]

----------------------------------------------------------------------------
(* The pieces of lambda_handler *)

\* Mutant: the environment default takes precedence over the request.
ResolveBucketNameEnvFirst(ev, env) ==
    PyOr(DictGet(env, "S3_BUCKET_NAME"), DictGet(ev, "bucket_name"))

\* line 28
ResolveBucketName(ev, env) ==
    PyOr(DictGet(ev, "bucket_name"), DictGet(env, "S3_BUCKET_NAME"))

\* Mutant: "if bucket_name is None" in place of "if not bucket_name".
MissingBucketNoneOnly(b) == b.ty = "NoneType"

\* line 30
MissingBucket(b) == ~Truthy(b)

\* Mutant: the 400 body without the hello marker.
MissingBucketResponseNoHello ==
    [statusCode |-> 400,
     body |-> JsonDumps(
        [message |-> PyStr("Error: No bucket name provided. Please specify bucket_name in event or S3_BUCKET_NAME environment variable.")])]

\* lines 31-37
MissingBucketResponse ==
    [statusCode |-> 400,
     body |-> JsonDumps(
        [message |-> PyStr("Error: No bucket name provided. Please specify bucket_name in event or S3_BUCKET_NAME environment variable."),
         hello |-> PyStr("world")])]

\* Mutant: the call without MaxKeys.
ListKwargsNoMaxKeys(b) == [Bucket |-> b]

\* lines 45-48
ListKwargs(b) == [Bucket |-> b, MaxKeys |-> 10]

\* lines 54-58: the dict built from one entry, or the exception its evaluation raises
ConvertEntry(obj) ==
    IF "Key" \notin DOMAIN obj THEN [raised |-> TRUE, exc |-> KeyError("Key")]
    ELSE IF "Size" \notin DOMAIN obj THEN [raised |-> TRUE, exc |-> KeyError("Size")]
    ELSE IF "LastModified" \notin DOMAIN obj
        THEN [raised |-> TRUE, exc |-> KeyError("LastModified")]
    ELSE IF obj.LastModified.ty # "datetime"
        THEN [raised |-> TRUE,
              exc |-> AttributeError("'" \o obj.LastModified.ty
                                     \o "' object has no attribute 'isoformat'")]
    ELSE [raised |-> FALSE,
          value |-> [key |-> obj.Key, size |-> obj.Size,
                     last_modified |-> PyStr(IsoFormat(obj.LastModified))]]

\* Mutant: objects.insert(0, item).
PrependObject(objs, item) == <<item>> \o objs

\* line 54: objects.append(item)
AppendObject(objs, item) == Append(objs, item)

\* lines 60-71: the dict handed to json.dumps
SuccessBody(b, objs) ==
    [message |-> PyStr("Hello World! Successfully read from S3 bucket: " \o b.v),
     bucket |-> b,
     object_count |-> PyInt(Len(objs)),
     objects |-> objs,
     hello |-> PyStr("world")]

\* Mutant: error_code and error_message exchanged.
ClientErrorResponseSwapped(e) ==
    LET error_code == e.response.Error.Message
        error_message == e.response.Error.Code
    IN [statusCode |-> 500,
        body |-> JsonDumps(
            [message |-> PyStr("Error reading from S3 bucket: " \o error_code),
             error |-> PyStr(error_message),
             hello |-> PyStr("world")])]

\* lines 75-86
ClientErrorResponse(e) ==
    LET error_code == e.response.Error.Code
        error_message == e.response.Error.Message
    IN [statusCode |-> 500,
        body |-> JsonDumps(
            [message |-> PyStr("Error reading from S3 bucket: " \o error_code),
             error |-> PyStr(error_message),
             hello |-> PyStr("world")])]

\* Mutant: the error field carries the exception's class name, not str(e).
UnexpectedErrorResponseClassName(e) ==
    [statusCode |-> 500,
     body |-> JsonDumps(
        [message |-> PyStr("Unexpected error occurred"),
         error |-> PyStr(e.cls),
         hello |-> PyStr("world")])]

\* lines 88-97
UnexpectedErrorResponse(e) ==
    [statusCode |-> 500,
     body |-> JsonDumps(
        [message |-> PyStr("Unexpected error occurred"),
         error |-> PyStr(ExcStr(e)),
         hello |-> PyStr("world")])]

----------------------------------------------------------------------------
(* The state machine *)

NoPrev == [ty |-> "unbound"]

Init ==
    /\ environ \in Environs
    /\ boto3_fault \in {NoFault, ProfileNotFound}
    /\ s3 \in S3States
    /\ pc = "idle"
    /\ event = EmptyDict
    /\ bucket_name = Unbound
    /\ response = Unbound
    /\ objects = Unbound
    /\ idx = 0
    /\ exc = Unbound
    /\ result = Unbound
    /\ escaped = Unbound
    /\ calls = <<>>
    /\ prev = NoPrev

Finished == pc \in {"done", "raised"}

\* The host calls lambda_handler(event, context): a fresh frame.
Invoke(ev) ==
    /\ pc = "idle" \/ Finished
    /\ pc' = "resolve"
    /\ event' = ev
    /\ bucket_name' = Unbound
    /\ response' = Unbound
    /\ objects' = Unbound
    /\ idx' = 0
    /\ exc' = Unbound
    /\ result' = Unbound
    /\ escaped' = Unbound
    /\ calls' = <<>>
    /\ prev' = IF prev # NoPrev /\ prev.event # ev
               THEN [prev EXCEPT !.between = TRUE] ELSE prev
    /\ UNCHANGED world

\* Mutant: the handler keeps the resolved name in os.environ for later calls.
ResolveCaching ==
    /\ pc = "resolve"
    /\ bucket_name' = ResolveBucketName(event, environ)
    /\ environ' = IF Truthy(bucket_name')
                  THEN [S3_BUCKET_NAME |-> bucket_name'] ELSE environ
    /\ pc' = "check"
    /\ UNCHANGED <<boto3_fault, s3, event, response, objects, idx, exc, result,
                   escaped, calls, prev>>

\* line 28
Resolve ==
    /\ pc = "resolve"
    /\ bucket_name' = ResolveBucketName(event, environ)
    /\ pc' = "check"
    /\ UNCHANGED <<world, event, response, objects, idx, exc, result, escaped, calls, prev>>

\* lines 30-37
ReturnMissing ==
    /\ pc = "check"
    /\ MissingBucket(bucket_name)
    /\ result' = MissingBucketResponse
    /\ pc' = "done"
    /\ UNCHANGED <<world, event, locals, escaped, calls, prev>>

\* line 40, outside the try block: what boto3.client raises leaves the handler
CreateClient ==
    /\ pc = "check"
    /\ ~MissingBucket(bucket_name)
    /\ IF boto3_fault = NoFault
       THEN pc' = "list" /\ UNCHANGED escaped
       ELSE pc' = "raised" /\ escaped' = boto3_fault
    /\ UNCHANGED <<world, event, locals, result, calls, prev>>

\* lines 45-48
ListObjects ==
    /\ pc = "list"
    /\ LET kwargs == ListKwargs(bucket_name)
           r == S3ListObjectsV2(s3, kwargs)
       IN /\ calls' = Append(calls, kwargs)
          /\ IF r.raised
             THEN exc' = r.exc /\ pc' = "except" /\ UNCHANGED response
             ELSE response' = r.value /\ pc' = "extract" /\ UNCHANGED exc
    /\ UNCHANGED <<world, event, bucket_name, objects, idx, result, escaped, prev>>

\* lines 51-53
StartExtract ==
    /\ pc = "extract"
    /\ objects' = <<>>
    /\ IF "Contents" \in DOMAIN response
       THEN pc' = "loop" /\ idx' = 1
       ELSE pc' = "build" /\ UNCHANGED idx
    /\ UNCHANGED <<world, event, bucket_name, response, exc, result, escaped, calls, prev>>

\* lines 53-58: one iteration of the for loop, or its end
LoopStep ==
    /\ pc = "loop"
    /\ IF idx > Len(response.Contents)
       THEN pc' = "build" /\ UNCHANGED <<objects, idx, exc>>
       ELSE LET r == ConvertEntry(response.Contents[idx])
            IN IF r.raised
               THEN exc' = r.exc /\ pc' = "except" /\ UNCHANGED <<objects, idx>>
               ELSE /\ objects' = AppendObject(objects, r.value)
                    /\ idx' = idx + 1
                    /\ UNCHANGED <<pc, exc>>
    /\ UNCHANGED <<world, event, bucket_name, response, result, escaped, calls, prev>>

\* lines 60-72
ReturnSuccess ==
    /\ pc = "build"
    /\ LET d == SuccessBody(bucket_name, objects)
       IN IF JsonSerializable(d)
          THEN /\ result' = [statusCode |-> 200, body |-> JsonDumps(d)]
               /\ pc' = "done"
               /\ UNCHANGED exc
          ELSE /\ exc' = TypeError("Object of type datetime is not JSON serializable")
               /\ pc' = "except"
               /\ UNCHANGED result
    /\ UNCHANGED <<world, event, bucket_name, response, objects, idx, escaped, calls, prev>>

\* lines 74-86
HandleClientError ==
    /\ pc = "except"
    /\ exc.cls = "ClientError"
    /\ result' = ClientErrorResponse(exc)
    /\ pc' = "done"
    /\ UNCHANGED <<world, event, locals, escaped, calls, prev>>

\* lines 87-97
HandleException ==
    /\ pc = "except"
    /\ exc.cls # "ClientError"
    /\ result' = UnexpectedErrorResponse(exc)
    /\ pc' = "done"
    /\ UNCHANGED <<world, event, locals, escaped, calls, prev>>

\* An observer keeps the request and the outcome of a finished invocation.
Remember ==
    /\ Finished
    /\ prev' = [event |-> event, result |-> result, escaped |-> escaped, between |-> FALSE]
    /\ prev' # prev
    /\ UNCHANGED <<world, pc, event, locals, result, escaped, calls>>

Next ==
    \/ \E ev \in Events : Invoke(ev)
    \/ Resolve
    \/ ReturnMissing
    \/ CreateClient
    \/ ListObjects
    \/ StartExtract
    \/ LoopStep
    \/ ReturnSuccess
    \/ HandleClientError
    \/ HandleException
    \/ Remember

Spec == Init /\ [][Next]_vars

----------------------------------------------------------------------------
(* What the claims speak of, read off the request, the environment and the *)
(* provider, not off the handler's locals.                                 *)

\* s contains sub
Contains(s, sub) ==
    \E i \in 1..(Len(s) - Len(sub) + 1) : SubSeq(s, i, i + Len(sub) - 1) = sub

\* The request supplies a bucket_name that is a non-empty string.
RequestHasBucket ==
    /\ "bucket_name" \in DOMAIN event
    /\ event.bucket_name.ty = "str"
    /\ event.bucket_name.v # ""

\* The environment supplies a non-empty default.
EnvHasBucket ==
    /\ "S3_BUCKET_NAME" \in DOMAIN environ
    /\ environ.S3_BUCKET_NAME.v # ""

\* The page the provider holds for a request of ten entries.
ProviderPage ==
    IF s3.kind = "listing"
    THEN [i \in 1..Min(10, Len(s3.contents)) |-> s3.contents[i]]
    ELSE <<>>

ProviderLists == s3.kind \in {"listing", "no_contents"}

\* The ObjectSummary of an entry that carries Key, Size and a datetime.
ExpectedSummary(obj) ==
    IF obj = File1
    THEN [key |-> "file1.txt", size |-> 1024, last_modified |-> "2024-01-01T12:00:00"]
    ELSE [key |-> "file2.txt", size |-> 2048, last_modified |-> "2024-01-02T12:00:00+00:00"]

\* str() of the fault that converting the entry raises.
ExpectedFault(obj) ==
    IF obj = NoKeyEntry THEN "'Key'"
    ELSE IF obj = NoSizeEntry THEN "'Size'"
    ELSE "'str' object has no attribute 'isoformat'"

BadPositions == {i \in 1..Len(ProviderPage) : ProviderPage[i] \notin GoodEntries}
FirstBad == CHOOSE i \in BadPositions : \A j \in BadPositions : i <= j

Returned(code) == pc = "done" /\ result.statusCode = code

----------------------------------------------------------------------------
\* C1: when the list call was made and the provider answered it with a page
\* of N well-formed entries (a response without 'Contents' counting as N = 0),
\* the handler returns 200 with the bucket it called the provider with,
\* object_count = N, N objects, and objects[i] the key, size and ISO-8601
\* last_modified of the provider's i-th entry.
C1_SuccessManifest ==
    (Finished /\ calls # <<>> /\ ProviderLists /\ BadPositions = {}) =>
        /\ Returned(200)
        /\ DOMAIN result.body = {"message", "bucket", "object_count", "objects", "hello"}
        /\ result.body.bucket = calls[1].Bucket.v
        /\ result.body.bucket # ""
        /\ result.body.object_count = Len(ProviderPage)
        /\ Len(result.body.objects) = Len(ProviderPage)
        /\ \A i \in 1..Len(ProviderPage) :
              result.body.objects[i] = ExpectedSummary(ProviderPage[i])

\* The provider holds file2.txt then file1.txt, and the 200 response lists them so.
C1_Witness ==
    /\ s3.kind = "listing" /\ s3.contents = <<File2, File1>>
    /\ Returned(200)
    /\ result.body.object_count = 2
    /\ result.body.objects[1].key = "file2.txt"
    /\ result.body.objects[2].last_modified = "2024-01-01T12:00:00"

\* C2: while neither the request nor the environment supplies a non-empty
\* bucket name, the list operation is not invoked, and the invocation ends by
\* returning 400 with a body of exactly message (no bucket was provided) and
\* hello = "world".
C2_MissingBucket400 ==
    (pc # "idle" /\ ~RequestHasBucket /\ ~EnvHasBucket) =>
        /\ calls = <<>>
        /\ pc \in {"resolve", "check", "done"}
        /\ Finished =>
              /\ Returned(400)
              /\ DOMAIN result.body = {"message", "hello"}
              /\ Contains(result.body.message, "No bucket name provided")
              /\ result.body.hello = "world"

\* An empty bucket_name and an empty S3_BUCKET_NAME: 400, no provider call.
C2_Witness ==
    /\ event = [bucket_name |-> PyStr("")]
    /\ environ = [S3_BUCKET_NAME |-> PyStr("")]
    /\ Returned(400)
    /\ calls = <<>>

\* C3: when the list call fails with a ClientError of code C and message M,
\* the handler returns 500 with a message that contains C and is not the
\* generic text, error = M, hello = "world", and no bucket, object_count or
\* objects field.
C3_ProviderError ==
    (Finished /\ calls # <<>> /\ s3.kind = "raises" /\ s3.exc.cls = "ClientError") =>
        /\ Returned(500)
        /\ DOMAIN result.body = {"message", "error", "hello"}
        /\ Contains(result.body.message, s3.exc.response.Error.Code)
        /\ result.body.error = s3.exc.response.Error.Message
        /\ result.body.hello = "world"
        /\ result.body.message # "Unexpected error occurred"

C3_Witness ==
    /\ s3.kind = "raises" /\ s3.exc.cls = "ClientError"
    /\ s3.exc.response.Error.Code = "NoSuchBucket"
    /\ Returned(500)
    /\ result.body.message = "Error reading from S3 bucket: NoSuchBucket"
    /\ result.body.error = "The specified bucket does not exist"

\* C4: when the list call raises an exception that is no ClientError, or an
\* entry of the returned page lacks Key, Size or a datetime LastModified, the
\* handler returns 500 with message 'Unexpected error occurred', error = str
\* of the fault, and no bucket, object_count or objects field.
C4_UnexpectedError ==
    /\ (Finished /\ calls # <<>> /\ s3.kind = "raises" /\ s3.exc.cls # "ClientError") =>
        /\ Returned(500)
        /\ DOMAIN result.body = {"message", "error", "hello"}
        /\ result.body.message = "Unexpected error occurred"
        /\ result.body.error = s3.exc.msg
    /\ (Finished /\ calls # <<>> /\ ProviderLists /\ BadPositions # {}) =>
        /\ Returned(500)
        /\ DOMAIN result.body = {"message", "error", "hello"}
        /\ result.body.message = "Unexpected error occurred"
        /\ result.body.error = ExpectedFault(ProviderPage[FirstBad])

\* One entry was converted, the second lacks Key: 500, and no list in the body.
C4_Witness ==
    /\ s3.kind = "listing" /\ s3.contents = <<File1, NoKeyEntry>>
    /\ Returned(500)
    /\ objects = <<[key |-> PyStr("file1.txt"), size |-> PyInt(1024),
                    last_modified |-> PyStr("2024-01-01T12:00:00")]>>
    /\ result.body.error = "'Key'"
    /\ "objects" \notin DOMAIN result.body

\* C5: no exception leaves lambda_handler.
C5_NoExceptionEscapes == pc # "raised" /\ escaped = Unbound

\* C6: every list call is made for, and every 200 response reports, the
\* request's bucket_name when that is a non-empty string, and the
\* S3_BUCKET_NAME default otherwise.
C6_Precedence ==
    LET expected == IF RequestHasBucket THEN event.bucket_name.v
                    ELSE environ.S3_BUCKET_NAME.v
    IN /\ \A i \in 1..Len(calls) : calls[i].Bucket = PyStr(expected)
       /\ Returned(200) => result.body.bucket = expected

\* Request and environment both name a bucket: the request's is used.
C6_Witness ==
    /\ event = [bucket_name |-> PyStr("test-bucket")]
    /\ environ = [S3_BUCKET_NAME |-> PyStr("test-bucket-env")]
    /\ Returned(200)
    /\ calls[1].Bucket.v = "test-bucket"
    /\ result.body.bucket = "test-bucket"

\* C7: every returned response has statusCode 200, 400 or 500 and a body
\* with a message and hello = "world".
C7_Envelope ==
    pc = "done" =>
        /\ result # Unbound
        /\ result.statusCode \in {200, 400, 500}
        /\ {"message", "hello"} \subseteq DOMAIN result.body
        /\ result.body.hello = "world"

\* The missing-input response of a request without bucket_name.
C7_Witness ==
    /\ event = EmptyDict
    /\ environ = EmptyDict
    /\ pc = "done"
    /\ result.statusCode = 400
    /\ result.body.hello = "world"

\* C8: every list call asks for at most 10 entries and passes no
\* continuation token, and a 200 response holds at most 10 objects.
C8_AtMostTen ==
    /\ \A i \in 1..Len(calls) :
          /\ "MaxKeys" \in DOMAIN calls[i]
          /\ calls[i].MaxKeys <= 10
          /\ "ContinuationToken" \notin DOMAIN calls[i]
    /\ Returned(200) =>
          /\ Len(result.body.objects) <= 10
          /\ result.body.object_count <= 10

\* The bucket holds more than ten objects; ten are reported.
C8_Witness ==
    /\ s3.kind = "listing" /\ Len(s3.contents) > 10
    /\ Returned(200)
    /\ result.body.object_count = 10
    /\ Len(result.body.objects) = 10

\* C9: with the environment and the provider state unchanged, an invocation
\* ends as every earlier invocation of the same request ended (same response,
\* or same escaping exception), whatever ran in between.
C9_Deterministic ==
    (Finished /\ prev # NoPrev /\ prev.event = event) =>
        /\ prev.result = result
        /\ prev.escaped = escaped

\* A 200 response equal to that of an earlier invocation of the same request,
\* with an invocation of another request in between.
C9_Witness ==
    /\ prev # NoPrev
    /\ prev.between
    /\ prev.event = event
    /\ Returned(200)
    /\ result.body.object_count > 0
    /\ prev.result = result

\* C10: the list operation is invoked at most once in an invocation, exactly
\* once when a bucket name is resolved and not otherwise; the invocation then
\* ends with 500 when the call failed and with a response when it succeeded.
C10_SingleCall ==
    /\ Len(calls) <= 1
    /\ Finished => Len(calls) = (IF RequestHasBucket \/ EnvHasBucket THEN 1 ELSE 0)
    /\ (Finished /\ Len(calls) = 1) =>
          /\ pc = "done"
          /\ s3.kind = "raises" => result.statusCode = 500
          /\ (ProviderLists /\ BadPositions = {}) => result.statusCode = 200

=============================================================================
